---- MODULE Spec2Model ----
(***************************************************************************)
(* Payload synthesis of the signalform dashboard and integration           *)
(* resources (signalform/dashboard.go and the integration resource that    *)
(* follows it in the same source part).                                    *)
(*                                                                         *)
(* The payload builders are pure functions of the resource data `d`; each  *)
(* is an operator here, computed the way the Go code computes it (loops    *)
(* are folds that carry the loop's local variables).  The state machine    *)
(* holds one resource data object, the name of the last function that was  *)
(* applied to it and what that function returned.  The create, read,       *)
(* update and delete handlers run step by step on the same state, with     *)
(* their payload builds and transport calls recorded in order.             *)
(*                                                                         *)
(* Go maps (map[string]interface{}) are functions whose DOMAIN is the set  *)
(* of keys present.  Where the code stores values of different dynamic     *)
(* types under one key (a string or a list, a string or an int) the model  *)
(* keeps the dynamic type next to the value, as interface{} does.          *)
(***************************************************************************)
EXTENDS Integers, Sequences, FiniteSets, TLC

VARIABLES
    d,      \* the argument: the resource data (*schema.ResourceData), or
            \* the value v handed to a validator
    fn,     \* name of the function last applied to d ("none" before any call)
    ret,    \* what that function returned
    pc,     \* position of the running handler: "idle", "built" or "done"
    local,  \* the handler's locals payload and err, once the payload is built
    trace   \* the payload builds and transport calls of the handler, in order

vars == <<d, fn, ret, pc, local, trace>>

(***************************************************************************)
(* Bounds of the model                                                     *)
(***************************************************************************)
MaxIds == 3         \* chart ids per column or grid group
MaxRow == 1         \* largest start_row / explicit row
MaxHeight == 2      \* largest height of a group
MaxValues == 2      \* values / suggested values per variable
MaxTime == 2        \* largest start_time / end_time, in seconds

(***************************************************************************)
(* Program constants                                                       *)
(***************************************************************************)
GridColumns == 12   \* the literal 12 of the wrap test in getDashboardGrids
MsPerSecond == 1000 \* the literal 1000 of getDashboardTime

(***************************************************************************)
(* interface{} values and maps                                             *)
(***************************************************************************)
String(s) == [type |-> "string", val |-> s]
Number(n) == [type |-> "int", val |-> n]
List(l) == [type |-> "[]interface{}", val |-> l]

\* make(map[string]interface{})
EmptyMap == [k \in {} |-> TRUE]

\* m[k] = v
Put(m, k, v) == (k :> v) @@ m

\* _, ok := m[k]
Has(m, k) == k \in DOMAIN m

\* the elements of a sequence
Range(s) == {s[i] : i \in DOMAIN s}

(***************************************************************************)
(* Layout resolver                                                         *)
(***************************************************************************)

\* One iteration of the loop of getDashboardCharts: the item of one
\* explicit chart entry.
chartItem(chart) ==
    [chartId |-> chart.chart_id,
     row     |-> chart.row,
     column  |-> chart.column,
     height  |-> chart.height,
     width   |-> chart.width]

getDashboardCharts(rd) ==
    [i \in 1..Len(rd.chart) |-> chartItem(rd.chart[i])]

\* The body of the inner loop of getDashboardColumns.  st carries the
\* loop's variables: charts (the result so far) and current_row.
columnStep(column, st, chart_id) ==
    [charts      |-> Append(st.charts,
                        [chartId |-> chart_id,
                         height  |-> column.height,
                         width   |-> column.width,
                         column  |-> column.column,
                         row     |-> st.current_row]),
     current_row |-> st.current_row + 1]

\* for _, chart_id := range column["chart_ids"]
RECURSIVE columnChartIds(_, _, _)
columnChartIds(column, st, chart_ids) ==
    IF chart_ids = <<>> THEN st
    ELSE columnChartIds(column,
                        columnStep(column, st, Head(chart_ids)),
                        Tail(chart_ids))

\* The body of the outer loop of getDashboardColumns: one column group.
columnGroup(charts, column) ==
    columnChartIds(column,
                   [charts |-> charts, current_row |-> column.start_row],
                   column.chart_ids).charts

\* for _, column := range columns
RECURSIVE columnGroups(_, _)
columnGroups(charts, columns) ==
    IF columns = <<>> THEN charts
    ELSE columnGroups(columnGroup(charts, Head(columns)), Tail(columns))

getDashboardColumns(rd) ==
    columnGroups(<<>>, rd.column)

\* gridStep with the wrap resetting the column to 0 instead of start_column.
gridStep_mut_zero(grid, st, chart_id) ==
    LET wrap == st.current_column + grid.width > GridColumns
        row  == IF wrap THEN st.current_row + 1 ELSE st.current_row
        col  == IF wrap THEN 0 ELSE st.current_column
    IN  [charts         |-> Append(st.charts,
                               [chartId |-> chart_id,
                                height  |-> grid.height,
                                width   |-> grid.width,
                                row     |-> row,
                                column  |-> col]),
         current_row    |-> row,
         current_column |-> col + grid.width]

\* gridStep without the wrap test.
gridStep_mut_nowrap(grid, st, chart_id) ==
    [charts         |-> Append(st.charts,
                           [chartId |-> chart_id,
                            height  |-> grid.height,
                            width   |-> grid.width,
                            row     |-> st.current_row,
                            column  |-> st.current_column]),
     current_row    |-> st.current_row,
     current_column |-> st.current_column + grid.width]

\* gridStep with the wrap test after the chart is placed, for the next one.
gridStep_mut_test_after(grid, st, chart_id) ==
    LET next == st.current_column + grid.width
        wrap == next + grid.width > GridColumns
    IN  [charts         |-> Append(st.charts,
                               [chartId |-> chart_id,
                                height  |-> grid.height,
                                width   |-> grid.width,
                                row     |-> st.current_row,
                                column  |-> st.current_column]),
         current_row    |-> IF wrap THEN st.current_row + 1
                            ELSE st.current_row,
         current_column |-> IF wrap THEN grid.start_column ELSE next]

\* The body of the inner loop of getDashboardGrids.  st carries charts,
\* current_row and current_column.
gridStep(grid, st, chart_id) ==
    LET wrap == st.current_column + grid.width > GridColumns
        row  == IF wrap THEN st.current_row + 1 ELSE st.current_row
        col  == IF wrap THEN grid.start_column ELSE st.current_column
    IN  [charts         |-> Append(st.charts,
                               [chartId |-> chart_id,
                                height  |-> grid.height,
                                width   |-> grid.width,
                                row     |-> row,
                                column  |-> col]),
         current_row    |-> row,
         current_column |-> col + grid.width]

\* for _, chart_id := range grid["chart_ids"]
RECURSIVE gridChartIds(_, _, _)
gridChartIds(grid, st, chart_ids) ==
    IF chart_ids = <<>> THEN st
    ELSE gridChartIds(grid,
                      gridStep(grid, st, Head(chart_ids)),
                      Tail(chart_ids))

\* The body of the outer loop of getDashboardGrids: one grid group.
gridGroup(charts, grid) ==
    gridChartIds(grid,
                 [charts         |-> charts,
                  current_row    |-> grid.start_row,
                  current_column |-> grid.start_column],
                 grid.chart_ids).charts

\* for _, grid := range grids
RECURSIVE gridGroups(_, _)
gridGroups(charts, grids) ==
    IF grids = <<>> THEN charts
    ELSE gridGroups(gridGroup(charts, Head(grids)), Tail(grids))

getDashboardGrids(rd) ==
    gridGroups(<<>>, rd.grid)

\* dashboardCharts with the grid placements appended before the column ones.
dashboardCharts_mut_order(rd) ==
    getDashboardCharts(rd) \o getDashboardGrids(rd) \o getDashboardColumns(rd)

\* Lines 436-440 of getPayloadDashboard: the two appends.
dashboardCharts(rd) ==
    LET charts           == getDashboardCharts(rd)
        column_charts    == getDashboardColumns(rd)
        dashboard_charts == charts \o column_charts
        grid_charts      == getDashboardGrids(rd)
    IN  dashboard_charts \o grid_charts

(***************************************************************************)
(* Resource data access                                                    *)
(***************************************************************************)

\* d.Get(key): the value of the key, its zero value when it is not set.
Get(rd, key) == rd[key]

\* The zero value of the type of a key read through GetOk.
\* charts_resolution is a string held as the sequence of its characters
\* (so that strings.ToUpper can be computed), start_time and end_time are
\* ints, time_range is a string.
ZeroValue(key) ==
    CASE key = "charts_resolution" -> <<>>
      [] key \in {"start_time", "end_time"} -> 0
      [] OTHER -> ""

\* GetOk reporting every key as set, its zero value included.
GetOk_mut_zero_is_set(rd, key) == [val |-> rd[key], ok |-> TRUE]

\* d.GetOk(key): the value, and whether it is set to a non-zero value.
GetOk(rd, key) == [val |-> rd[key], ok |-> rd[key] # ZeroValue(key)]

(***************************************************************************)
(* Conditional field projector: the time window                            *)
(***************************************************************************)
\* getDashboardTime with start_time and end_time tested before time_range.
getDashboardTime_mut_explicit_first(rd) ==
    LET start == GetOk(rd, "start_time")
        end   == GetOk(rd, "end_time")
        range == GetOk(rd, "time_range")
        m1 == IF start.ok
              THEN Put(EmptyMap, "start", Number(start.val * MsPerSecond))
              ELSE EmptyMap
        m2 == IF end.ok
              THEN Put(m1, "end", Number(end.val * MsPerSecond))
              ELSE m1
    IN  IF start.ok \/ end.ok THEN m2
        ELSE IF range.ok
             THEN Put(Put(EmptyMap, "start", String(range.val)),
                      "end", String("Now"))
             ELSE EmptyMap

\* The nil map returned when nothing is set has no keys and length 0, as
\* the empty map has.
getDashboardTime(rd) ==
    LET range == GetOk(rd, "time_range")
        start == GetOk(rd, "start_time")
        end   == GetOk(rd, "end_time")
        relative == Put(Put(EmptyMap, "start", String(range.val)),
                        "end", String("Now"))
        m1 == IF start.ok
              THEN Put(EmptyMap, "start", Number(start.val * MsPerSecond))
              ELSE EmptyMap
        m2 == IF end.ok
              THEN Put(m1, "end", Number(end.val * MsPerSecond))
              ELSE m1
        timeMap == IF range.ok THEN relative ELSE m2
    IN  IF Cardinality(DOMAIN timeMap) > 0 THEN timeMap ELSE EmptyMap

(***************************************************************************)
(* Field normalizers                                                       *)
(***************************************************************************)

\* variableItem without the tests for an empty set.
variableItem_mut_empty_list(variable) ==
    LET base == [property      |-> variable.property,
                 description   |-> variable.description,
                 alias         |-> variable.alias,
                 required      |-> variable.value_required,
                 restricted    |-> variable.restricted_suggestions,
                 applyIfExists |-> variable.apply_if_exist,
                 replaceOnly   |-> variable.replace_only]
        withValue ==
            IF Has(variable, "values")
            THEN Put(base, "value", List(variable.values))
            ELSE Put(base, "value", String(""))
    IN  IF Has(variable, "values_suggested")
        THEN Put(withValue, "preferredSuggestions", variable.values_suggested)
        ELSE withValue

\* The body of the loop of getDashboardVariables.  A *schema.Set is held
\* as the sequence its List() returns.
variableItem(variable) ==
    LET base == [property      |-> variable.property,
                 description   |-> variable.description,
                 alias         |-> variable.alias,
                 required      |-> variable.value_required,
                 restricted    |-> variable.restricted_suggestions,
                 applyIfExists |-> variable.apply_if_exist,
                 replaceOnly   |-> variable.replace_only]
        withValue ==
            IF Has(variable, "values")
            THEN IF Len(variable.values) # 0
                 THEN Put(base, "value", List(variable.values))
                 ELSE Put(base, "value", String(""))
            ELSE Put(base, "value", String(""))
    IN  IF Has(variable, "values_suggested")
        THEN IF Len(variable.values_suggested) # 0
             THEN Put(withValue, "preferredSuggestions",
                      variable.values_suggested)
             ELSE withValue
        ELSE withValue

getDashboardVariables(rd) ==
    [i \in 1..Len(rd.variable) |-> variableItem(rd.variable[i])]

\* The body of the loop of getDashboardFilters.
filterItem(filter) ==
    [property      |-> filter.property,
     NOT           |-> filter.negated,
     applyIfExists |-> filter.apply_if_exist,
     value         |-> filter.values]

getDashboardFilters(rd) ==
    [i \in 1..Len(rd.filter) |-> filterItem(rd.filter[i])]

\* The fixed palette table, color name -> index.
PaletteColors ==
    [c \in {"gray", "blue", "navy", "orange"} |->
        CASE c = "gray" -> 0
          [] c = "blue" -> 1
          [] c = "navy" -> 2
          [] c = "orange" -> 3]

\* The body of the inner loop of getDashboardEventOverlays.
overlaySource(source) ==
    [property |-> source.property,
     value    |-> source.values,
     NOT      |-> source.negated]

\* overlayItem with index 0 for a color that is no key of the palette.
overlayItem_mut_any_color(overlay) ==
    LET base == [eventSignal |-> [eventSearchText |-> overlay.signal,
                                  eventType       |-> overlay.type]]
        m1 == IF Has(overlay, "line")
              THEN Put(base, "eventLine", overlay.line) ELSE base
        m2 == IF Has(overlay, "label")
              THEN Put(m1, "label", overlay.label) ELSE m1
        m3 == IF Has(overlay, "color")
              THEN IF overlay.color \in DOMAIN PaletteColors
                   THEN Put(m2, "eventColorIndex", PaletteColors[overlay.color])
                   ELSE Put(m2, "eventColorIndex", 0)
              ELSE m2
    IN  IF Has(overlay, "source")
        THEN Put(m3, "sources",
                 [j \in 1..Len(overlay.source) |->
                     overlaySource(overlay.source[j])])
        ELSE m3

\* The body of the loop of getDashboardEventOverlays.  A type assertion
\* overlay[k].(T) succeeds exactly when the key is present: the schema
\* fixes the type of every key.
overlayItem(overlay) ==
    LET base == [eventSignal |-> [eventSearchText |-> overlay.signal,
                                  eventType       |-> overlay.type]]
        m1 == IF Has(overlay, "line")
              THEN Put(base, "eventLine", overlay.line) ELSE base
        m2 == IF Has(overlay, "label")
              THEN Put(m1, "label", overlay.label) ELSE m1
        m3 == IF Has(overlay, "color")
              THEN IF overlay.color \in DOMAIN PaletteColors
                   THEN Put(m2, "eventColorIndex", PaletteColors[overlay.color])
                   ELSE m2
              ELSE m2
    IN  IF Has(overlay, "source")
        THEN Put(m3, "sources",
                 [j \in 1..Len(overlay.source) |->
                     overlaySource(overlay.source[j])])
        ELSE m3

getDashboardEventOverlays(overlays) ==
    [i \in 1..Len(overlays) |-> overlayItem(overlays[i])]

(***************************************************************************)
(* Payload assembler                                                       *)
(***************************************************************************)

\* The letters strings.ToUpper maps; every other character is unchanged.
LowerLetters ==
    <<"a", "b", "c", "d", "e", "f", "g", "h", "i", "j", "k", "l", "m",
      "n", "o", "p", "q", "r", "s", "t", "u", "v", "w", "x", "y", "z">>

UpperLetters ==
    <<"A", "B", "C", "D", "E", "F", "G", "H", "I", "J", "K", "L", "M",
      "N", "O", "P", "Q", "R", "S", "T", "U", "V", "W", "X", "Y", "Z">>

ToUpperRune(c) ==
    IF \E i \in DOMAIN LowerLetters : LowerLetters[i] = c
    THEN UpperLetters[CHOOSE i \in DOMAIN LowerLetters : LowerLetters[i] = c]
    ELSE c

\* strings.ToUpper on a string held as the sequence of its characters.
ToUpper(s) == [i \in DOMAIN s |-> ToUpperRune(s[i])]

\* json.Marshal of a map whose values are strings, ints, bools, slices and
\* maps of the same: it cannot fail, and the encoding (keys sorted) is a
\* one-to-one image of the document, so the bytes are held as the document.
jsonMarshal(payload) == [bytes |-> payload, err |-> "nil"]

\* allFilters with the time key set even when the time map is empty.
allFilters_mut_always_time(rd) ==
    LET filters   == getDashboardFilters(rd)
        variables == getDashboardVariables(rd)
        time      == getDashboardTime(rd)
        m1 == IF Len(filters) > 0
              THEN Put(EmptyMap, "sources", filters) ELSE EmptyMap
        m2 == IF Len(variables) > 0
              THEN Put(m1, "variables", variables) ELSE m1
    IN  Put(m2, "time", time)

\* Lines 416-425 of getPayloadDashboard: the all_filters map.
allFilters(rd) ==
    LET filters   == getDashboardFilters(rd)
        variables == getDashboardVariables(rd)
        time      == getDashboardTime(rd)
        m1 == IF Len(filters) > 0
              THEN Put(EmptyMap, "sources", filters) ELSE EmptyMap
        m2 == IF Len(variables) > 0
              THEN Put(m1, "variables", variables) ELSE m1
    IN  IF Cardinality(DOMAIN time) > 0
        THEN Put(m2, "time", time) ELSE m2

\* The document getPayloadDashboard hands to json.Marshal.
dashboardPayload(rd) ==
    LET base == [name        |-> Get(rd, "name"),
                 description |-> Get(rd, "description"),
                 groupId     |-> Get(rd, "dashboard_group")]
        all_filters == allFilters(rd)
        p1 == IF Cardinality(DOMAIN all_filters) > 0
              THEN Put(base, "filters", all_filters) ELSE base
        p2 == Put(p1, "eventOverlays",
                  getDashboardEventOverlays(Get(rd, "event_overlay")))
        p3 == Put(p2, "selectedEventOverlays",
                  getDashboardEventOverlays(Get(rd, "selected_event_overlay")))
        dashboard_charts == dashboardCharts(rd)
        p4 == IF Len(dashboard_charts) > 0
              THEN Put(p3, "charts", dashboard_charts) ELSE p3
        chartsResolution == GetOk(rd, "charts_resolution")
    IN  IF chartsResolution.ok
        THEN Put(p4, "chartDensity", ToUpper(chartsResolution.val))
        ELSE p4

getPayloadDashboard(rd) == jsonMarshal(dashboardPayload(rd))

(***************************************************************************)
(* Integration resource                                                    *)
(***************************************************************************)
\* integrationPayload with every secret that is set, whatever the type.
integrationPayload_mut_set_secrets(rd) ==
    LET base == [name    |-> Get(rd, "name"),
                 enabled |-> Get(rd, "enabled"),
                 type    |-> Get(rd, "type")]
        p1 == IF Get(rd, "api_key") # ""
              THEN Put(base, "apiKey", Get(rd, "api_key")) ELSE base
    IN  IF Get(rd, "webhook_url") # ""
        THEN Put(p1, "webhookUrl", Get(rd, "webhook_url")) ELSE p1

\* The document getPayloadIntegration hands to json.Marshal.
integrationPayload(rd) ==
    LET integrationType == Get(rd, "type")
        base == [name    |-> Get(rd, "name"),
                 enabled |-> Get(rd, "enabled"),
                 type    |-> integrationType]
    IN  CASE integrationType = "PagerDuty" ->
                Put(base, "apiKey", Get(rd, "api_key"))
          [] integrationType = "Slack" ->
                Put(base, "webhookUrl", Get(rd, "webhook_url"))
          [] OTHER -> base

getPayloadIntegration(rd) == jsonMarshal(integrationPayload(rd))

(***************************************************************************)
(* Enumerated validators                                                   *)
(***************************************************************************)

\* for _, word := range allowedWords { if value == word { return } }
RECURSIVE isAllowed(_, _)
isAllowed(value, allowedWords) ==
    IF allowedWords = <<>> THEN FALSE
    ELSE IF value = Head(allowedWords) THEN TRUE
         ELSE isAllowed(value, Tail(allowedWords))

\* fmt.Errorf("%s not allowed; must be one of: %s", value,
\*            strings.Join(allowedWords, ", "))
notAllowedError(value, allowedWords) ==
    [format  |-> "%s not allowed; must be one of: %s",
     value   |-> value,
     allowed |-> allowedWords]

\* validateWords with the loop stopping one word early.
validateWords_mut_skip_last(value, allowedWords) ==
    IF Len(allowedWords) > 0
       /\ isAllowed(value, SubSeq(allowedWords, 1, Len(allowedWords) - 1))
    THEN [we |-> <<>>, errors |-> <<>>]
    ELSE [we |-> <<>>,
          errors |-> <<notAllowedError(value, allowedWords)>>]

\* The body the three validators share: (we, errors).
validateWords(value, allowedWords) ==
    IF isAllowed(value, allowedWords)
    THEN [we |-> <<>>, errors |-> <<>>]
    ELSE [we |-> <<>>,
          errors |-> <<notAllowedError(value, allowedWords)>>]

validateChartsResolution(v) ==
    validateWords(v, <<"default", "low", "high", "highest">>)

validateEventOverlayType(v) ==
    validateWords(v, <<"eventTimeSeries", "detectorEvents">>)

validateIntegrationType(v) ==
    validateWords(v, <<"PagerDuty", "Slack">>)

(***************************************************************************)
(* Inputs: the resource data the functions are applied to                  *)
(***************************************************************************)

\* A dashboard resource with nothing but its required fields set: every
\* optional key reads as its zero value.
DefaultData ==
    [name                   |-> "dash",
     description            |-> "",
     dashboard_group        |-> "group",
     charts_resolution      |-> <<>>,
     time_range             |-> "",
     start_time             |-> 0,
     end_time               |-> 0,
     chart                  |-> <<>>,
     column                 |-> <<>>,
     grid                   |-> <<>>,
     variable               |-> <<>>,
     filter                 |-> <<>>,
     event_overlay          |-> <<>>,
     selected_event_overlay |-> <<>>]

\* The first n of a list of chart ids.
Ids(names, n) == SubSeq(names, 1, n)

ColumnIdsA == <<"ca1", "ca2", "ca3", "ca4", "ca5", "ca6">>
ColumnIdsB == <<"cb1", "cb2", "cb3", "cb4", "cb5", "cb6">>
GridIdsA == <<"ga1", "ga2", "ga3", "ga4", "ga5", "ga6">>
GridIdsB == <<"gb1", "gb2", "gb3", "gb4", "gb5", "gb6">>

ExplicitCharts ==
    [chart_id : {"e1", "e2"}, row : 0..MaxRow, column : {0, 6},
     width : {6, 12}, height : {1}]

ColumnGroups(names) ==
    [chart_ids : {Ids(names, n) : n \in 0..MaxIds},
     column : {0, 6}, start_row : 0..MaxRow,
     width : {6, 12}, height : 1..MaxHeight]

\* Every start_column of the schema's range 0..11 with every width of 1..12.
GridGroups(names) ==
    [chart_ids : {Ids(names, n) : n \in 0..MaxIds},
     start_row : 0..MaxRow, start_column : 0..(GridColumns - 1),
     width : 1..GridColumns, height : 1..MaxHeight]

SecondColumnGroups ==
    [chart_ids : {Ids(ColumnIdsB, n) : n \in {0, 2}},
     column : {6}, start_row : {0, MaxRow},
     width : {6}, height : {1, MaxHeight}]

SecondGridGroups ==
    [chart_ids : {Ids(GridIdsB, n) : n \in {0, MaxIds}},
     start_row : {MaxRow}, start_column : {0, 2, 8},
     width : {5, 6}, height : {1}]

FirstGridGroups ==
    [chart_ids : {Ids(GridIdsA, n) : n \in {0, MaxIds}},
     start_row : {0}, start_column : {0, 2, 8},
     width : {4, 6}, height : {1}]

ColumnData ==
    {[DefaultData EXCEPT !.column = <<c>>] : c \in ColumnGroups(ColumnIdsA)}
    \cup {[DefaultData EXCEPT !.column = <<c1, c2>>] :
            c1 \in ColumnGroups(ColumnIdsA), c2 \in SecondColumnGroups}

GridData ==
    {[DefaultData EXCEPT !.grid = <<g>>] : g \in GridGroups(GridIdsA)}
    \cup {[DefaultData EXCEPT !.grid = <<g1, g2>>] :
            g1 \in FirstGridGroups, g2 \in SecondGridGroups}

\* Explicit entries, column groups and grid groups together.
MixedLayouts ==
    LET e1 == [chart_id |-> "e1", row |-> 0, column |-> 0,
               width |-> 6, height |-> 1]
        e2 == [chart_id |-> "e2", row |-> 0, column |-> 6,
               width |-> 6, height |-> 1]
        c1 == [chart_ids |-> Ids(ColumnIdsA, 2), column |-> 0,
               start_row |-> 1, width |-> 6, height |-> 1]
        c2 == [chart_ids |-> Ids(ColumnIdsB, 1), column |-> 6,
               start_row |-> 1, width |-> 6, height |-> MaxHeight]
        g1 == [chart_ids |-> Ids(GridIdsA, MaxIds), start_row |-> 3,
               start_column |-> 2, width |-> 6, height |-> 1]
        g2 == [chart_ids |-> Ids(GridIdsB, 2), start_row |-> 5,
               start_column |-> 0, width |-> 4, height |-> 1]
    IN  [chart  : {<<>>, <<e1>>, <<e2, e1>>} \cup
                  {<<e>> : e \in ExplicitCharts},
         column : {<<>>, <<c1>>, <<c2, c1>>},
         grid   : {<<>>, <<g1>>, <<g2, g1>>}]

MixedData ==
    {[DefaultData EXCEPT !.chart = l.chart, !.column = l.column,
                         !.grid = l.grid] : l \in MixedLayouts}

LayoutData == ColumnData \cup GridData \cup MixedData

\* Time windows: a time_range string ("" when unset), start and end in
\* seconds (0 when unset).
Seconds == (0..MaxTime) \cup {100}

TimeWindows ==
    [time_range : {"", "-1h", "-5m"}, start_time : Seconds, end_time : Seconds]

TimeData ==
    {[DefaultData EXCEPT !.time_range = t.time_range,
                         !.start_time = t.start_time,
                         !.end_time = t.end_time] : t \in TimeWindows}

\* Lists of values of a *schema.Set, as its List() returns them.
ValueNames == <<"v1", "v2", "v3", "v4", "v5">>
ValueLists == {Ids(ValueNames, n) : n \in 0..MaxValues}

\* Variables: the keys values and values_suggested may be missing from the
\* map, or hold a (possibly empty) set.
VariableBases ==
    [property : {"region"}, alias : {"Region"}, description : {"", "where"},
     value_required : BOOLEAN, restricted_suggestions : {FALSE},
     apply_if_exist : {FALSE}, replace_only : BOOLEAN]

Variables ==
    UNION {{b, Put(b, "values", v), Put(b, "values_suggested", sv),
            Put(Put(b, "values", v), "values_suggested", sv)} :
           <<b, v, sv>> \in VariableBases \X ValueLists \X ValueLists}

SecondVariables ==
    LET b == [property |-> "az", alias |-> "Zone", description |-> "",
              value_required |-> TRUE, restricted_suggestions |-> TRUE,
              apply_if_exist |-> TRUE, replace_only |-> FALSE]
    IN  {Put(Put(b, "values", v), "values_suggested", sv) :
         <<v, sv>> \in ValueLists \X ValueLists}

VariableData ==
    {[DefaultData EXCEPT !.variable = <<v>>] : v \in Variables}
    \cup {[DefaultData EXCEPT !.variable = <<v1, v2>>] :
            v1 \in SecondVariables, v2 \in SecondVariables}

Filters ==
    [property : {"env"}, negated : BOOLEAN, apply_if_exist : BOOLEAN,
     values : ValueLists]

\* Event overlays: event_overlay entries carry line, label and color (the
\* schema gives each a value), selected_event_overlay entries have none of
\* the three keys.  "teal" and "" are no names of the palette.
OverlaySources ==
    {<<>>,
     <<[property |-> "env", negated |-> FALSE, values |-> <<"prod">>]>>,
     <<[property |-> "env", negated |-> TRUE, values |-> <<>>],
       [property |-> "az", negated |-> FALSE, values |-> <<"a", "b">>]>>}

EventOverlays ==
    [signal : {"deploy"}, type : {"eventTimeSeries", "detectorEvents"},
     line : BOOLEAN, label : {"", "Deploys"},
     color : {"", "gray", "blue", "orange", "teal"},
     source : OverlaySources]

SelectedEventOverlays ==
    [signal : {"deploy"}, type : {"eventTimeSeries", "detectorEvents"},
     source : OverlaySources]
    \cup [signal : {"deploy"}, type : {"eventTimeSeries"}]

OverlayData ==
    {[DefaultData EXCEPT !.event_overlay = <<o>>] : o \in EventOverlays}
    \cup {[DefaultData EXCEPT !.event_overlay = <<o, o>>,
                              !.selected_event_overlay = <<s>>] :
            o \in {e \in EventOverlays : e.source = <<>> /\ ~e.line},
            s \in SelectedEventOverlays}

\* charts_resolution, as the sequence of its characters.
Resolutions ==
    {<<>>,
     <<"l", "o", "w">>,
     <<"H", "i", "g", "h">>,
     <<"h", "i", "g", "h", "e", "s", "t">>,
     <<"D", "E", "F", "A", "U", "L", "T">>}

\* Documents with each optional part present or missing.
DocumentData ==
    LET f  == [property |-> "env", negated |-> FALSE,
               apply_if_exist |-> FALSE, values |-> <<"prod">>]
        v  == [property |-> "region", alias |-> "Region",
               description |-> "", value_required |-> FALSE,
               restricted_suggestions |-> FALSE, apply_if_exist |-> FALSE,
               replace_only |-> FALSE, values |-> <<>>,
               values_suggested |-> <<>>]
        o  == [signal |-> "deploy", type |-> "eventTimeSeries",
               line |-> FALSE, label |-> "", color |-> "", source |-> <<>>]
        so == [signal |-> "deploy", type |-> "detectorEvents",
               source |-> <<>>]
        e  == [chart_id |-> "e1", row |-> 0, column |-> 0,
               width |-> 12, height |-> 1]
        c0 == [chart_ids |-> <<>>, column |-> 0, start_row |-> 0,
               width |-> 12, height |-> 1]
        g  == [chart_ids |-> Ids(GridIdsA, 2), start_row |-> 0,
               start_column |-> 0, width |-> 6, height |-> 1]
    IN  {[DefaultData EXCEPT
            !.description = x.description,
            !.filter = x.filter, !.variable = x.variable,
            !.time_range = x.time.time_range,
            !.start_time = x.time.start_time,
            !.end_time = x.time.end_time,
            !.event_overlay = x.event_overlay,
            !.selected_event_overlay = x.selected_event_overlay,
            !.chart = x.layout.chart, !.column = x.layout.column,
            !.grid = x.layout.grid,
            !.charts_resolution = x.charts_resolution] :
         x \in [description : {"", "about"},
                filter : {<<>>, <<f>>},
                variable : {<<>>, <<v>>},
                time : {t \in TimeWindows :
                          /\ t.time_range # "-5m"
                          /\ t.start_time \in {0, 1}
                          /\ t.end_time \in {0, 1}},
                event_overlay : {<<>>, <<o>>},
                selected_event_overlay : {<<>>, <<so>>},
                layout : [chart : {<<>>, <<e>>}, column : {<<>>, <<c0>>},
                          grid : {<<>>, <<g>>}],
                charts_resolution : {<<>>, <<"l", "o", "w">>}]}
    \cup {[DefaultData EXCEPT !.charts_resolution = r] : r \in Resolutions}
    \cup {[DefaultData EXCEPT !.filter = <<fl>>] : fl \in Filters}

FieldData == TimeData \cup VariableData \cup OverlayData \cup DocumentData

\* Integration resources.  api_key and webhook_url read as "" when unset.
IntegrationData ==
    [name : {"", "oncall"}, enabled : BOOLEAN,
     type : {"PagerDuty", "Slack", "pagerduty", "SLACK", "Email", ""},
     api_key : {"", "key"}, webhook_url : {"", "https://hook"}]

\* Values handed to the enumerated validators.
ValidatorValues ==
    {"default", "low", "high", "highest", "Default", "LOW", "High",
     "HIGHEST", "hig", "highes", "lowest", "medium", "",
     "eventTimeSeries", "detectorEvents", "eventtimeseries",
     "DetectorEvents", "eventTimeSerie", "detectorEvent", "events",
     "PagerDuty", "Slack", "pagerduty", "slack", "PAGERDUTY", "SLACK",
     "Pagerduty", "Slac", "Email", "PagerDuty, Slack", " Slack",
     "default, low, high, highest", "low ", "default,low"}

(***************************************************************************)
(* The state machine: a function is applied to the resource data           *)
(***************************************************************************)
CallGetDashboardCharts ==
    /\ fn' = "getDashboardCharts"
    /\ ret' = getDashboardCharts(d)
    /\ UNCHANGED <<d, pc, local, trace>>

CallGetDashboardColumns ==
    /\ fn' = "getDashboardColumns"
    /\ ret' = getDashboardColumns(d)
    /\ UNCHANGED <<d, pc, local, trace>>

CallGetDashboardGrids ==
    /\ fn' = "getDashboardGrids"
    /\ ret' = getDashboardGrids(d)
    /\ UNCHANGED <<d, pc, local, trace>>

CallGetDashboardTime ==
    /\ fn' = "getDashboardTime"
    /\ ret' = getDashboardTime(d)
    /\ UNCHANGED <<d, pc, local, trace>>

CallGetDashboardVariables ==
    /\ fn' = "getDashboardVariables"
    /\ ret' = getDashboardVariables(d)
    /\ UNCHANGED <<d, pc, local, trace>>

CallGetDashboardFilters ==
    /\ fn' = "getDashboardFilters"
    /\ ret' = getDashboardFilters(d)
    /\ UNCHANGED <<d, pc, local, trace>>

CallGetDashboardEventOverlays ==
    /\ fn' = "getDashboardEventOverlays(overlays)"
    /\ ret' = getDashboardEventOverlays(Get(d, "event_overlay"))
    /\ UNCHANGED <<d, pc, local, trace>>

CallGetDashboardSelectedEventOverlays ==
    /\ fn' = "getDashboardEventOverlays(soverlays)"
    /\ ret' = getDashboardEventOverlays(Get(d, "selected_event_overlay"))
    /\ UNCHANGED <<d, pc, local, trace>>

CallGetPayloadDashboard ==
    /\ fn' = "getPayloadDashboard"
    /\ ret' = getPayloadDashboard(d)
    /\ UNCHANGED <<d, pc, local, trace>>

CallGetPayloadIntegration ==
    /\ fn' = "getPayloadIntegration"
    /\ ret' = getPayloadIntegration(d)
    /\ UNCHANGED <<d, pc, local, trace>>

CallValidateChartsResolution ==
    /\ fn' = "validateChartsResolution"
    /\ ret' = validateChartsResolution(d)
    /\ UNCHANGED <<d, pc, local, trace>>

CallValidateEventOverlayType ==
    /\ fn' = "validateEventOverlayType"
    /\ ret' = validateEventOverlayType(d)
    /\ UNCHANGED <<d, pc, local, trace>>

CallValidateIntegrationType ==
    /\ fn' = "validateIntegrationType"
    /\ ret' = validateIntegrationType(d)
    /\ UNCHANGED <<d, pc, local, trace>>

NoCall ==
    /\ fn = "none"
    /\ ret = <<>>
    /\ pc = "idle"
    /\ local = <<>>
    /\ trace = <<>>

\* The layout resolver on layout groups.
InitLayout == d \in LayoutData /\ NoCall

NextLayout ==
    \/ CallGetDashboardCharts
    \/ CallGetDashboardColumns
    \/ CallGetDashboardGrids
    \/ CallGetPayloadDashboard

SpecLayout == InitLayout /\ [][NextLayout]_vars

\* The normalizers, the time window and the assembler on the other fields.
InitFields == d \in FieldData /\ NoCall

NextFields ==
    \/ CallGetDashboardTime
    \/ CallGetDashboardVariables
    \/ CallGetDashboardFilters
    \/ CallGetDashboardEventOverlays
    \/ CallGetDashboardSelectedEventOverlays
    \/ CallGetPayloadDashboard

SpecFields == InitFields /\ [][NextFields]_vars

\* The integration payload.
InitIntegration == d \in IntegrationData /\ NoCall

NextIntegration == CallGetPayloadIntegration

SpecIntegration == InitIntegration /\ [][NextIntegration]_vars

\* The validators, each on every value.
InitValidators == d \in ValidatorValues /\ NoCall

NextValidators ==
    \/ CallValidateChartsResolution
    \/ CallValidateEventOverlayType
    \/ CallValidateIntegrationType

SpecValidators == InitValidators /\ [][NextValidators]_vars

\* Every dashboard function on every dashboard resource of the model.
Init == d \in LayoutData \cup FieldData /\ NoCall

Next ==
    \/ CallGetDashboardCharts
    \/ CallGetDashboardColumns
    \/ CallGetDashboardGrids
    \/ CallGetDashboardTime
    \/ CallGetDashboardVariables
    \/ CallGetDashboardFilters
    \/ CallGetDashboardEventOverlays
    \/ CallGetDashboardSelectedEventOverlays
    \/ CallGetPayloadDashboard

Spec == Init /\ [][Next]_vars

(***************************************************************************)
(* Resource handlers: create, read, update and delete                      *)
(*                                                                         *)
(* A handler that builds a payload runs in two steps: it builds the        *)
(* payload (pc "idle" to "built"), then either returns the wrapped error   *)
(* or calls the transport and returns what the transport returns (pc       *)
(* "built" to "done").  Read and delete are one step.  `trace` records     *)
(* each payload build and each transport call as it happens.               *)
(***************************************************************************)

DASHBOARD_API_URL == "https://api.signalfx.com/v2/dashboard"

INTEGRATION_API_URL == "https://api.signalfx.com/v2/integration"

\* config.AuthToken, of the provider configuration handed over as meta.
AuthToken == "token"

\* d.Id(): "" until the resource has been created.
Id(rd) == rd.id

\* json.Marshal returning an error.  Marshal does not fail on the documents
\* the builders assemble; the handlers test err all the same, so they are
\* run against this outcome too.
marshalFailure == [bytes |-> <<>>, err |-> "json: unsupported value"]

\* What `payload, err := getPayload...(d)` can leave in the handler's locals.
payloadOutcomes(built) == {built, marshalFailure}

\* The error a transport function returns: nil, or the error of the request.
TransportErrors == {"nil", "request failed"}

\* The record of one payload build in the trace.
buildEvent(builder, result) ==
    [event |-> "build", fn |-> builder, result |-> result]

\* The record of one transport call in the trace; read and delete hand over
\* no payload.
transportEvent(transport, url, token, payload) ==
    [event |-> "transport", fn |-> transport, url |-> url, token |-> token,
     payload |-> payload]

NoPayload == <<"no payload">>

\* fmt.Errorf("Failed creating json payload: %s", err.Error()), dashboardCreate
dashboardCreateError(err) == "Failed creating json payload: " \o err

\* fmt.Errorf("Failed creating json payload: %s", err.Error()), dashboardUpdate
dashboardUpdateError(err) == "Failed creating json payload: " \o err

\* fmt.Errorf("Failed creating json payload: %s", err.Error()), integrationCreate
integrationCreateError(err) == "Failed creating json payload: " \o err

\* fmt.Errorf("Failed creating json payload: %s", err.Error()), integrationUpdate
integrationUpdateError(err) == "Failed creating json payload: " \o err

\* fmt.Sprintf("%s/%s", DASHBOARD_API_URL, d.Id())
dashboardUrl(rd) == DASHBOARD_API_URL \o "/" \o Id(rd)

\* fmt.Sprintf("%s/%s", INTEGRATION_API_URL, d.Id())
integrationUrl(rd) == INTEGRATION_API_URL \o "/" \o Id(rd)

\* fmt.Sprintf("%s?skipValidation=true", INTEGRATION_API_URL)
integrationCreateUrl == INTEGRATION_API_URL \o "?skipValidation=true"

\* Resource ids: none yet, or the id of a created resource.
ResourceIds == {"", "Dx1"}

\* The resources the dashboard handlers are registered for.
HandlerDashboards == {Put(x, "id", i) : x \in DocumentData, i \in ResourceIds}

\* The resources the integration handlers are registered for.
HandlerIntegrations == {Put(x, "id", i) : x \in IntegrationData, i \in ResourceIds}

\* dashboardCreate: payload, err := getPayloadDashboard(d)
dashboardCreateBuild ==
    /\ pc = "idle"
    /\ d \in HandlerDashboards
    /\ \E outcome \in payloadOutcomes(getPayloadDashboard(d)) :
        /\ local' = outcome
        /\ trace' = Append(trace, buildEvent("getPayloadDashboard", outcome))
    /\ fn' = "dashboardCreate"
    /\ pc' = "built"
    /\ UNCHANGED <<d, ret>>

\* dashboardCreate: if err != nil, return the wrapped error
dashboardCreateFail ==
    /\ pc = "built"
    /\ fn = "dashboardCreate"
    /\ local.err # "nil"
    /\ ret' = dashboardCreateError(local.err)
    /\ pc' = "done"
    /\ UNCHANGED <<d, fn, local, trace>>

\* dashboardCreate: return resourceCreate(DASHBOARD_API_URL, config.AuthToken, payload, d)
dashboardCreateSend ==
    /\ pc = "built"
    /\ fn = "dashboardCreate"
    /\ local.err = "nil"
    /\ trace' = Append(trace, transportEvent("resourceCreate", DASHBOARD_API_URL,
                                             AuthToken, local.bytes))
    /\ ret' \in TransportErrors
    /\ pc' = "done"
    /\ UNCHANGED <<d, fn, local>>

\* dashboardRead: return resourceRead(url, config.AuthToken, d)
dashboardRead ==
    /\ pc = "idle"
    /\ d \in HandlerDashboards
    /\ trace' = Append(trace, transportEvent("resourceRead", dashboardUrl(d),
                                             AuthToken, NoPayload))
    /\ fn' = "dashboardRead"
    /\ ret' \in TransportErrors
    /\ pc' = "done"
    /\ UNCHANGED <<d, local>>

\* dashboardUpdate: payload, err := getPayloadDashboard(d)
dashboardUpdateBuild ==
    /\ pc = "idle"
    /\ d \in HandlerDashboards
    /\ \E outcome \in payloadOutcomes(getPayloadDashboard(d)) :
        /\ local' = outcome
        /\ trace' = Append(trace, buildEvent("getPayloadDashboard", outcome))
    /\ fn' = "dashboardUpdate"
    /\ pc' = "built"
    /\ UNCHANGED <<d, ret>>

\* dashboardUpdate: if err != nil, return the wrapped error
dashboardUpdateFail ==
    /\ pc = "built"
    /\ fn = "dashboardUpdate"
    /\ local.err # "nil"
    /\ ret' = dashboardUpdateError(local.err)
    /\ pc' = "done"
    /\ UNCHANGED <<d, fn, local, trace>>

\* dashboardUpdate calling the transport without the test of err.
dashboardUpdateSend_mut_no_err_test ==
    /\ pc = "built"
    /\ fn = "dashboardUpdate"
    /\ trace' = Append(trace, transportEvent("resourceUpdate", dashboardUrl(d),
                                             AuthToken, local.bytes))
    /\ ret' \in TransportErrors
    /\ pc' = "done"
    /\ UNCHANGED <<d, fn, local>>

\* dashboardUpdate: return resourceUpdate(url, config.AuthToken, payload, d)
dashboardUpdateSend ==
    /\ pc = "built"
    /\ fn = "dashboardUpdate"
    /\ local.err = "nil"
    /\ trace' = Append(trace, transportEvent("resourceUpdate", dashboardUrl(d),
                                             AuthToken, local.bytes))
    /\ ret' \in TransportErrors
    /\ pc' = "done"
    /\ UNCHANGED <<d, fn, local>>

\* dashboardDelete: return resourceDelete(url, config.AuthToken, d)
dashboardDelete ==
    /\ pc = "idle"
    /\ d \in HandlerDashboards
    /\ trace' = Append(trace, transportEvent("resourceDelete", dashboardUrl(d),
                                             AuthToken, NoPayload))
    /\ fn' = "dashboardDelete"
    /\ ret' \in TransportErrors
    /\ pc' = "done"
    /\ UNCHANGED <<d, local>>

\* integrationCreate: payload, err := getPayloadIntegration(d)
integrationCreateBuild ==
    /\ pc = "idle"
    /\ d \in HandlerIntegrations
    /\ \E outcome \in payloadOutcomes(getPayloadIntegration(d)) :
        /\ local' = outcome
        /\ trace' = Append(trace, buildEvent("getPayloadIntegration", outcome))
    /\ fn' = "integrationCreate"
    /\ pc' = "built"
    /\ UNCHANGED <<d, ret>>

\* integrationCreate: if err != nil, return the wrapped error
integrationCreateFail ==
    /\ pc = "built"
    /\ fn = "integrationCreate"
    /\ local.err # "nil"
    /\ ret' = integrationCreateError(local.err)
    /\ pc' = "done"
    /\ UNCHANGED <<d, fn, local, trace>>

\* integrationCreate: return resourceCreate(url, config.AuthToken, payload, d)
integrationCreateSend ==
    /\ pc = "built"
    /\ fn = "integrationCreate"
    /\ local.err = "nil"
    /\ trace' = Append(trace, transportEvent("resourceCreate", integrationCreateUrl,
                                             AuthToken, local.bytes))
    /\ ret' \in TransportErrors
    /\ pc' = "done"
    /\ UNCHANGED <<d, fn, local>>

\* integrationRead: return resourceRead(url, config.AuthToken, d)
integrationRead ==
    /\ pc = "idle"
    /\ d \in HandlerIntegrations
    /\ trace' = Append(trace, transportEvent("resourceRead", integrationUrl(d),
                                             AuthToken, NoPayload))
    /\ fn' = "integrationRead"
    /\ ret' \in TransportErrors
    /\ pc' = "done"
    /\ UNCHANGED <<d, local>>

\* integrationUpdate: payload, err := getPayloadIntegration(d)
integrationUpdateBuild ==
    /\ pc = "idle"
    /\ d \in HandlerIntegrations
    /\ \E outcome \in payloadOutcomes(getPayloadIntegration(d)) :
        /\ local' = outcome
        /\ trace' = Append(trace, buildEvent("getPayloadIntegration", outcome))
    /\ fn' = "integrationUpdate"
    /\ pc' = "built"
    /\ UNCHANGED <<d, ret>>

\* integrationUpdate: if err != nil, return the wrapped error
integrationUpdateFail ==
    /\ pc = "built"
    /\ fn = "integrationUpdate"
    /\ local.err # "nil"
    /\ ret' = integrationUpdateError(local.err)
    /\ pc' = "done"
    /\ UNCHANGED <<d, fn, local, trace>>

\* integrationUpdate: return resourceUpdate(url, config.AuthToken, payload, d)
integrationUpdateSend ==
    /\ pc = "built"
    /\ fn = "integrationUpdate"
    /\ local.err = "nil"
    /\ trace' = Append(trace, transportEvent("resourceUpdate", integrationUrl(d),
                                             AuthToken, local.bytes))
    /\ ret' \in TransportErrors
    /\ pc' = "done"
    /\ UNCHANGED <<d, fn, local>>

\* integrationDelete: return resourceDelete(url, config.AuthToken, d)
integrationDelete ==
    /\ pc = "idle"
    /\ d \in HandlerIntegrations
    /\ trace' = Append(trace, transportEvent("resourceDelete", integrationUrl(d),
                                             AuthToken, NoPayload))
    /\ fn' = "integrationDelete"
    /\ ret' \in TransportErrors
    /\ pc' = "done"
    /\ UNCHANGED <<d, local>>

\* One run of one handler on one resource.
InitHandlers == d \in HandlerDashboards \cup HandlerIntegrations /\ NoCall

NextHandlers ==
    \/ dashboardCreateBuild
    \/ dashboardCreateFail
    \/ dashboardCreateSend
    \/ dashboardRead
    \/ dashboardUpdateBuild
    \/ dashboardUpdateFail
    \/ dashboardUpdateSend
    \/ dashboardDelete
    \/ integrationCreateBuild
    \/ integrationCreateFail
    \/ integrationCreateSend
    \/ integrationRead
    \/ integrationUpdateBuild
    \/ integrationUpdateFail
    \/ integrationUpdateSend
    \/ integrationDelete

SpecHandlers == InitHandlers /\ [][NextHandlers]_vars

(***************************************************************************)
(* Properties of the layout resolver                                       *)
(***************************************************************************)

\* The number of chart ids of the groups before group j.
RECURSIVE IdsBefore(_, _)
IdsBefore(groups, j) ==
    IF j = 1 THEN 0
    ELSE IdsBefore(groups, j - 1) + Len(groups[j - 1].chart_ids)

\* The placement, in the list rs, of the i-th chart id of group j.
Placement(rs, groups, j, i) == rs[IdsBefore(groups, j) + i]

\* The placements, in the list rs, of the chart ids of group j.
GroupPlacements(rs, groups, j) ==
    SubSeq(rs, IdsBefore(groups, j) + 1,
           IdsBefore(groups, j) + Len(groups[j].chart_ids))

\* The chart ids of all groups, in order.
RECURSIVE FlattenIds(_)
FlattenIds(groups) ==
    IF groups = <<>> THEN <<>>
    ELSE Head(groups).chart_ids \o FlattenIds(Tail(groups))

\* C1: in the result of getDashboardColumns, the i-th chart (i from 0) of
\* every column group is at row start_row + i*height, so successive rows
\* differ by exactly height, and every placement of the group is at the
\* group's column.
C1_ColumnRowsStepByHeight ==
    fn = "getDashboardColumns" =>
        \A j \in DOMAIN d.column :
            \A i \in 1..Len(d.column[j].chart_ids) :
                LET g == d.column[j]
                    p == Placement(ret, d.column, j, i)
                IN  /\ p.row = g.start_row + (i - 1) * g.height
                    /\ p.column = g.column

\* The rule of the grid expansion, on the result of getDashboardGrids:
\* each chart of a grid group is placed from the row and column the
\* previous chart left (start_row and start_column for the first): when
\* that column + width > 12 the chart goes one row down at the group's
\* start_column, otherwise it stays on the row at that column; the next
\* column is the chart's column + width.
GridRule(g, at) ==
    \A i \in 1..Len(g.chart_ids) :
        LET row0 == IF i = 1 THEN g.start_row ELSE at[i - 1].row
            col0 == IF i = 1 THEN g.start_column
                    ELSE at[i - 1].column + g.width
        IN  IF col0 + g.width > 12
            THEN /\ at[i].row = row0 + 1
                 /\ at[i].column = g.start_column
            ELSE /\ at[i].row = row0
                 /\ at[i].column = col0

\* The rows and columns of the three placements of a group of three ids.
RowsAndColumns(at) ==
    <<<<at[1].row, at[1].column>>, <<at[2].row, at[2].column>>,
      <<at[3].row, at[3].column>>>>

\* C2, as stated: every grid group follows the rule of the grid expansion
\* (wrap to start_column, not 0, when column + width > 12), and a group
\* {start_column=2, width=6} with three ids at start_row r is placed at
\* (r,2), (r,8), (r+1,2).
C2_Original_GridExample ==
    fn = "getDashboardGrids" =>
        \A j \in DOMAIN d.grid :
            LET g == d.grid[j]
                at == GroupPlacements(ret, d.grid, j)
            IN  /\ GridRule(g, at)
                /\ (/\ g.start_column = 2
                    /\ g.width = 6
                    /\ Len(g.chart_ids) = 3) =>
                       RowsAndColumns(at)
                       = <<<<g.start_row, 2>>, <<g.start_row, 8>>,
                           <<g.start_row + 1, 2>>>>

\* C2, amended: every grid group follows the rule of the grid expansion
\* (wrap to start_column, not 0, when column + width > 12); a group
\* {start_column=2, width=6} with three ids at start_row r is placed at
\* (r,2), (r+1,2), (r+2,2), since 8 + 6 > 12 wraps the second chart too.
C2_GridWrapsToStartColumn ==
    fn = "getDashboardGrids" =>
        \A j \in DOMAIN d.grid :
            LET g == d.grid[j]
                at == GroupPlacements(ret, d.grid, j)
            IN  /\ GridRule(g, at)
                /\ (/\ g.start_column = 2
                    /\ g.width = 6
                    /\ Len(g.chart_ids) = 3) =>
                       RowsAndColumns(at)
                       = <<<<g.start_row, 2>>, <<g.start_row + 1, 2>>,
                           <<g.start_row + 2, 2>>>>

\* Witness of C2: the group {start_column=2, width=6} with three ids has
\* been expanded, and a chart wrapped to column 2 of the next row.
C2_Witness ==
    /\ fn = "getDashboardGrids"
    /\ Len(d.grid) = 1
    /\ d.grid[1].start_column = 2
    /\ d.grid[1].width = 6
    /\ Len(d.grid[1].chart_ids) = 3
    /\ ret[2].row = d.grid[1].start_row + 1
    /\ ret[2].column = 2

\* C3, as stated: every placement of a grid group other than its first
\* has column + width <= 12, for start_column in 0..11 and width in 1..12.
C3_Original_NonFirstFits ==
    fn = "getDashboardGrids" =>
        \A j \in DOMAIN d.grid :
            \A i \in 2..Len(d.grid[j].chart_ids) :
                LET g == d.grid[j]
                    p == Placement(ret, d.grid, j, i)
                IN  (g.start_column \in 0..11 /\ g.width \in 1..12) =>
                        p.column + p.width <= 12

\* C3, amended: when the group's start_column + width <= 12, every
\* placement of the group (the first included) has column + width <= 12.
C3_GridFitsWhenStartFits ==
    fn = "getDashboardGrids" =>
        \A j \in DOMAIN d.grid :
            \A i \in 1..Len(d.grid[j].chart_ids) :
                LET g == d.grid[j]
                    p == Placement(ret, d.grid, j, i)
                IN  (/\ g.start_column \in 0..11
                     /\ g.width \in 1..12
                     /\ g.start_column + g.width <= 12) =>
                        p.column + p.width <= 12

\* Witness of C3: a group whose first chart fits has been packed and has
\* wrapped to a further row.
C3_Witness ==
    /\ fn = "getDashboardGrids"
    /\ Len(d.grid) = 1
    /\ d.grid[1].start_column + d.grid[1].width <= 12
    /\ d.grid[1].start_column > 0
    /\ Len(d.grid[1].chart_ids) >= 2
    /\ ret[Len(ret)].row > d.grid[1].start_row
    /\ ret[Len(ret)].column + ret[Len(ret)].width <= 12

\* C4: the charts of the document built by getPayloadDashboard are the
\* explicit placements, then the column placements, then the grid
\* placements; the chart ids are those of the explicit entries followed by
\* the ids of the column groups and of the grid groups in list order, one
\* placement per id; with no placement the key is missing.
C4_ChartsConcatenated ==
    fn = "getPayloadDashboard" =>
        LET explicit == [i \in 1..Len(d.chart) |-> d.chart[i].chart_id]
            ids == explicit \o FlattenIds(d.column) \o FlattenIds(d.grid)
            doc == ret.bytes
        IN  IF ids = <<>> THEN ~Has(doc, "charts")
            ELSE /\ Has(doc, "charts")
                 /\ Len(doc.charts) = Len(ids)
                 /\ \A k \in 1..Len(ids) : doc.charts[k].chartId = ids[k]
                 /\ SubSeq(doc.charts, 1, Len(d.chart))
                        = getDashboardCharts(d)
                 /\ SubSeq(doc.charts, Len(d.chart) + 1,
                           Len(d.chart) + Len(FlattenIds(d.column)))
                        = getDashboardColumns(d)
                 /\ SubSeq(doc.charts,
                           Len(d.chart) + Len(FlattenIds(d.column)) + 1,
                           Len(ids))
                        = getDashboardGrids(d)

\* Witness of C4: a document was built from explicit entries, two column
\* groups and two grid groups, each with chart ids.
C4_Witness ==
    /\ fn = "getPayloadDashboard"
    /\ Len(d.chart) = 2
    /\ Len(d.column) = 2
    /\ Len(d.grid) = 2
    /\ Len(ret.bytes.charts) = 2 + Len(FlattenIds(d.column))
                                 + Len(FlattenIds(d.grid))
    /\ Len(FlattenIds(d.column)) >= 3
    /\ Len(FlattenIds(d.grid)) >= 4

(***************************************************************************)
(* Properties of the time window and of the integration secret             *)
(***************************************************************************)

\* C5: the result of getDashboardTime is exactly {start: time_range,
\* end: "Now"} when time_range is present, whatever start_time and
\* end_time are; otherwise it has start = start_time*1000 iff start_time
\* is present and end = end_time*1000 iff end_time is present and no other
\* key (only start_time=100 gives {start: 100000}); and when none of the
\* three is present the document of getPayloadDashboard has no time key
\* in its filters, and has it, with that map, when one is.
C5_TimeWindow ==
    LET rangeSet == d.time_range # ""
        startSet == d.start_time # 0
        endSet   == d.end_time # 0
    IN  /\ fn = "getDashboardTime" =>
            IF rangeSet
            THEN ret = [start |-> String(d.time_range),
                        end   |-> String("Now")]
            ELSE /\ DOMAIN ret \subseteq {"start", "end"}
                 /\ Has(ret, "start") <=> startSet
                 /\ Has(ret, "end") <=> endSet
                 /\ startSet => ret.start = Number(d.start_time * 1000)
                 /\ endSet => ret.end = Number(d.end_time * 1000)
                 /\ (d.start_time = 100 /\ ~endSet) =>
                        ret = ("start" :> Number(100000))
        /\ fn = "getPayloadDashboard" =>
            LET doc == ret.bytes
                timeKey == Has(doc, "filters") /\ Has(doc.filters, "time")
            IN  /\ timeKey <=> (rangeSet \/ startSet \/ endSet)
                /\ timeKey /\ rangeSet =>
                       doc.filters.time = [start |-> String(d.time_range),
                                           end   |-> String("Now")]

\* Witness of C5: the time window was projected from a resource with
\* time_range, start_time and end_time all set, and the relative time won.
C5_Witness ==
    /\ fn = "getDashboardTime"
    /\ d.time_range = "-1h"
    /\ d.start_time = 100
    /\ d.end_time # 0
    /\ ret.start = String("-1h")
    /\ ret.end = String("Now")

\* C6: the document of getPayloadIntegration has key apiKey iff type is
\* "PagerDuty" and key webhookUrl iff type is "Slack", each with the value
\* of its field; besides name, enabled and type it has no other key, so
\* the unused secret never appears, and any other type has neither key.
C6_IntegrationSecret ==
    fn = "getPayloadIntegration" =>
        LET doc == ret.bytes
        IN  /\ Has(doc, "apiKey") <=> d.type = "PagerDuty"
            /\ Has(doc, "webhookUrl") <=> d.type = "Slack"
            /\ Has(doc, "apiKey") => doc.apiKey = d.api_key
            /\ Has(doc, "webhookUrl") => doc.webhookUrl = d.webhook_url
            /\ DOMAIN doc \subseteq
                   {"name", "enabled", "type", "apiKey", "webhookUrl"}
            /\ (d.type = "Slack" /\ d.api_key # "" /\ d.webhook_url # "") =>
                   DOMAIN doc = {"name", "enabled", "type", "webhookUrl"}

\* Witness of C6: the payload of a Slack integration with both secrets set
\* was built.
C6_Witness ==
    /\ fn = "getPayloadIntegration"
    /\ d.type = "Slack"
    /\ d.api_key = "key"
    /\ d.webhook_url = "https://hook"
    /\ ret.bytes.webhookUrl = "https://hook"

(***************************************************************************)
(* Properties of the document and of the normalizers                       *)
(***************************************************************************)

\* s is t in upper case: the same length, no lower-case letter in s, and
\* each character of s is the character of t or its upper-case letter.
IsUpperCaseOf(s, t) ==
    /\ Len(s) = Len(t)
    /\ \A i \in 1..Len(t) :
        /\ s[i] \notin {LowerLetters[k] : k \in DOMAIN LowerLetters}
        /\ \/ s[i] = t[i]
           \/ \E k \in DOMAIN LowerLetters :
                  t[i] = LowerLetters[k] /\ s[i] = UpperLetters[k]

\* C7: the document of getPayloadDashboard always has name, description,
\* groupId, eventOverlays and selectedEventOverlays (one overlay object
\* per configured overlay, possibly none); filters iff one of sources,
\* variables, time is non-empty, holding exactly the non-empty ones;
\* charts iff there is a placement; chartDensity iff charts_resolution is
\* set, and then the resolution in upper case; and no other key.
C7_DocumentKeys ==
    fn = "getPayloadDashboard" =>
        LET doc == ret.bytes
            subKeys ==
                {k \in {"sources"} : Len(d.filter) > 0}
                \cup {k \in {"variables"} : Len(d.variable) > 0}
                \cup {k \in {"time"} : \/ d.time_range # ""
                                       \/ d.start_time # 0
                                       \/ d.end_time # 0}
            placements == Len(d.chart) + Len(FlattenIds(d.column))
                              + Len(FlattenIds(d.grid))
            optional ==
                {k \in {"filters"} : subKeys # {}}
                \cup {k \in {"charts"} : placements > 0}
                \cup {k \in {"chartDensity"} : d.charts_resolution # <<>>}
        IN  /\ DOMAIN doc = {"name", "description", "groupId",
                             "eventOverlays", "selectedEventOverlays"}
                            \cup optional
            /\ doc.name = d.name
            /\ doc.description = d.description
            /\ doc.groupId = d.dashboard_group
            /\ Len(doc.eventOverlays) = Len(d.event_overlay)
            /\ Len(doc.selectedEventOverlays) = Len(d.selected_event_overlay)
            /\ Has(doc, "filters") =>
                /\ DOMAIN doc.filters = subKeys
                /\ Has(doc.filters, "sources") =>
                       Len(doc.filters.sources) > 0
                /\ Has(doc.filters, "variables") =>
                       Len(doc.filters.variables) > 0
                /\ Has(doc.filters, "time") =>
                       DOMAIN doc.filters.time # {}
            /\ Has(doc, "charts") => Len(doc.charts) = placements
            /\ Has(doc, "chartDensity") =>
                   IsUpperCaseOf(doc.chartDensity, d.charts_resolution)

\* Witness of C7: a document was built whose filters hold the time window
\* alone, that has a chart density and, its one column group having no
\* chart id, no charts.
C7_Witness ==
    /\ fn = "getPayloadDashboard"
    /\ Has(ret.bytes, "filters")
    /\ DOMAIN ret.bytes.filters = {"time"}
    /\ Len(d.column) = 1
    /\ ~Has(ret.bytes, "charts")
    /\ Has(ret.bytes, "chartDensity")
    /\ ret.bytes.chartDensity = <<"L", "O", "W">>

\* C8: in the result of getDashboardVariables the value of a variable is
\* the list of its values when it has at least one, and the string ""
\* (not an empty list) when it has none; the key preferredSuggestions is
\* present, with the suggested values, iff there is at least one.
C8_VariableValue ==
    fn = "getDashboardVariables" =>
        /\ Len(ret) = Len(d.variable)
        /\ \A i \in DOMAIN d.variable :
            LET v == d.variable[i]
                item == ret[i]
                values == Has(v, "values") /\ Len(v.values) > 0
                suggested == Has(v, "values_suggested")
                                 /\ Len(v.values_suggested) > 0
            IN  /\ item.value = IF values THEN List(v.values) ELSE String("")
                /\ item.value # List(<<>>)
                /\ Has(item, "preferredSuggestions") <=> suggested
                /\ suggested => item.preferredSuggestions = v.values_suggested

\* Witness of C8: a variable whose values and values_suggested are both
\* empty sets was normalized.
C8_Witness ==
    /\ fn = "getDashboardVariables"
    /\ Len(d.variable) = 1
    /\ Has(d.variable[1], "values")
    /\ d.variable[1].values = <<>>
    /\ Has(d.variable[1], "values_suggested")
    /\ d.variable[1].values_suggested = <<>>
    /\ ret[1].value = String("")

\* The map m without the key k.
Without(m, k) == [x \in DOMAIN m \ {k} |-> m[x]]

\* C9: an overlay object of the result of getDashboardEventOverlays has
\* key eventColorIndex iff the overlay has a color that is a key of the
\* palette, its value then being the palette's index; for any other color
\* the key is missing, and the rest of the object is what the overlay
\* gives with no color at all.
C9_OverlayColor ==
    fn \in {"getDashboardEventOverlays(overlays)",
            "getDashboardEventOverlays(soverlays)"} =>
        LET overlays == IF fn = "getDashboardEventOverlays(overlays)"
                        THEN d.event_overlay
                        ELSE d.selected_event_overlay
        IN  /\ Len(ret) = Len(overlays)
            /\ \A i \in DOMAIN overlays :
                LET o == overlays[i]
                    known == Has(o, "color")
                                 /\ o.color \in DOMAIN PaletteColors
                IN  /\ Has(ret[i], "eventColorIndex") <=> known
                    /\ known => ret[i].eventColorIndex
                                    = PaletteColors[o.color]
                    /\ Without(ret[i], "eventColorIndex")
                           = overlayItem(Without(o, "color"))

\* Witness of C9: an overlay with a color that is no name of the palette
\* was normalized.
C9_Witness ==
    /\ fn = "getDashboardEventOverlays(overlays)"
    /\ Len(d.event_overlay) = 1
    /\ d.event_overlay[1].color = "teal"
    /\ ~Has(ret[1], "eventColorIndex")
    /\ Has(ret[1], "label")

(***************************************************************************)
(* Properties of the enumerated validators                                 *)
(***************************************************************************)

\* What a validator must return for value v and the allowed set: no
\* warning; no error when v is a member, and otherwise one error that
\* names v and the allowed words.
ValidatorResult(v, allowed, result) ==
    /\ result.we = <<>>
    /\ IF v \in allowed
       THEN result.errors = <<>>
       ELSE /\ Len(result.errors) = 1
            /\ result.errors[1].value = v
            /\ Range(result.errors[1].allowed) = allowed

\* C10: each validator returns no error for a member of its allowed set
\* and exactly one error naming the value and the allowed set for any
\* other string, a member in another case included.
C10_Validators ==
    /\ fn = "validateChartsResolution" =>
           ValidatorResult(d, {"default", "low", "high", "highest"}, ret)
    /\ fn = "validateEventOverlayType" =>
           ValidatorResult(d, {"eventTimeSeries", "detectorEvents"}, ret)
    /\ fn = "validateIntegrationType" =>
           ValidatorResult(d, {"PagerDuty", "Slack"}, ret)

\* Witness of C10: the integration type "slack", which differs from an
\* allowed word in case only, was rejected with one error.
C10_Witness ==
    /\ fn = "validateIntegrationType"
    /\ d = "slack"
    /\ Len(ret.errors) = 1
    /\ ret.errors[1].value = "slack"

(***************************************************************************)
(* The first chart of a grid group                                         *)
(***************************************************************************)

\* C13: the wrap test of getDashboardGrids runs before the first chart of
\* a group is placed: the first chart is at (start_row, start_column) when
\* start_column + width <= 12 and at (start_row + 1, start_column) when
\* start_column + width > 12; and in the second case every chart of the
\* group is at start_column, each on its own row (the i-th, i from 1, on
\* row start_row + i), with column + width > 12.
C13_FirstChartOfGrid ==
    fn = "getDashboardGrids" =>
        \A j \in DOMAIN d.grid :
            LET g == d.grid[j]
                n == Len(g.chart_ids)
                at == GroupPlacements(ret, d.grid, j)
                fits == g.start_column + g.width <= 12
            IN  /\ n >= 1 =>
                    /\ at[1].column = g.start_column
                    /\ at[1].row = IF fits THEN g.start_row
                                   ELSE g.start_row + 1
                /\ ~fits =>
                    \A i \in 1..n :
                        /\ at[i].column = g.start_column
                        /\ at[i].row = g.start_row + i
                        /\ at[i].column + at[i].width > 12

\* Witness of C13: a group whose first chart does not fit at start_column
\* was expanded: its first chart went to the row after start_row and its
\* second chart to the row after that, both at start_column.
C13_Witness ==
    /\ fn = "getDashboardGrids"
    /\ Len(d.grid) = 1
    /\ d.grid[1].start_column + d.grid[1].width > 12
    /\ Len(d.grid[1].chart_ids) >= 2
    /\ ret[1].row = d.grid[1].start_row + 1
    /\ ret[2].row = d.grid[1].start_row + 2
    /\ ret[2].column = d.grid[1].start_column

(***************************************************************************)
(* Zero values read through GetOk                                          *)
(***************************************************************************)

\* C15: start_time, end_time, time_range and charts_resolution count as
\* present only when they are not the zero value of their type.  With
\* time_range "" the result of getDashboardTime is {end: E*1000} alone for
\* start_time = 0 and end_time = E > 0, {start: S*1000} alone for
\* start_time = S > 0 and end_time = 0, and has no key when both are 0;
\* then the document of getPayloadDashboard has no time key, and it has no
\* chartDensity when charts_resolution is the empty string.
C15_ZeroValueIsAbsent ==
    /\ (fn = "getDashboardTime" /\ d.time_range = "") =>
        /\ (d.start_time = 0 /\ d.end_time > 0) =>
               ret = ("end" :> Number(d.end_time * 1000))
        /\ (d.start_time > 0 /\ d.end_time = 0) =>
               ret = ("start" :> Number(d.start_time * 1000))
        /\ (d.start_time = 0 /\ d.end_time = 0) => DOMAIN ret = {}
    /\ fn = "getPayloadDashboard" =>
        /\ (d.time_range = "" /\ d.start_time = 0 /\ d.end_time = 0) =>
               ~(Has(ret.bytes, "filters")
                 /\ Has(ret.bytes.filters, "time"))
        /\ d.charts_resolution = <<>> => ~Has(ret.bytes, "chartDensity")

\* Witness of C15: the time window of a resource with start_time 0 and an
\* end_time was projected, and has the end alone.
C15_Witness ==
    /\ fn = "getDashboardTime"
    /\ d.time_range = ""
    /\ d.start_time = 0
    /\ d.end_time > 0
    /\ DOMAIN ret = {"end"}

(***************************************************************************)
(* Properties of the resource handlers                                     *)
(***************************************************************************)

\* The handlers that build a payload, and the ones that do not.
BuildingHandlers ==
    {"dashboardCreate", "dashboardUpdate", "integrationCreate",
     "integrationUpdate"}

PlainHandlers ==
    {"dashboardRead", "dashboardDelete", "integrationRead",
     "integrationDelete"}

\* The error handler h returns when the payload build failed with err.
wrappedError(h, err) ==
    CASE h = "dashboardCreate"   -> dashboardCreateError(err)
      [] h = "dashboardUpdate"   -> dashboardUpdateError(err)
      [] h = "integrationCreate" -> integrationCreateError(err)
      [] h = "integrationUpdate" -> integrationUpdateError(err)

\* The description handler h puts in front of the serialization error.
Description(h) == wrappedError(h, "")

\* The create handler of the update handler's resource, and the reverse.
Counterpart(h) ==
    CASE h = "dashboardCreate"   -> "dashboardUpdate"
      [] h = "dashboardUpdate"   -> "dashboardCreate"
      [] h = "integrationCreate" -> "integrationUpdate"
      [] h = "integrationUpdate" -> "integrationCreate"

\* The positions of the payload builds and of the transport calls in the trace.
Builds == {i \in DOMAIN trace : trace[i].event = "build"}

Sends == {i \in DOMAIN trace : trace[i].event = "transport"}

(***************************************************************************)
(* Serialization failure                                                   *)
(***************************************************************************)

\* C12: when the payload build fails in dashboardCreate, dashboardUpdate,
\* integrationCreate or integrationUpdate, the handler returns the
\* serialization error behind a description of which payload failed, and
\* the description of a create differs from the description of the update
\* of the same resource.
C12_FailureNamesTheOperation ==
    (pc = "done" /\ fn \in BuildingHandlers /\ local.err # "nil") =>
        /\ ret = Description(fn) \o local.err
        /\ Description(fn) # ""
        /\ Description(fn) # Description(Counterpart(fn))

(***************************************************************************)
(* Order of payload build and transport call                               *)
(***************************************************************************)

\* C14: in a run of dashboardCreate, dashboardUpdate, integrationCreate or
\* integrationUpdate the transport is called at most once, only right after
\* a payload build that returned no error and with the bytes of that build,
\* never when a build returned an error, and a finished run has built the
\* payload; a run of a read or delete handler builds no payload.
C14_BuildBeforeTransport ==
    /\ fn \in BuildingHandlers =>
        /\ Cardinality(Sends) <= 1
        /\ \A s \in Sends :
            /\ s - 1 \in Builds
            /\ trace[s - 1].result.err = "nil"
            /\ trace[s].payload = trace[s - 1].result.bytes
        /\ (\E b \in Builds : trace[b].result.err # "nil") => Sends = {}
        /\ pc = "done" => Builds # {}
    /\ fn \in PlainHandlers => Builds = {}

\* dashboardUpdate has built the payload of a dashboard with an id and has
\* then handed exactly these bytes to resourceUpdate.
C14_Witness ==
    /\ fn = "dashboardUpdate"
    /\ pc = "done"
    /\ Id(d) # ""
    /\ Len(trace) = 2
    /\ trace[1].event = "build"
    /\ trace[1].result.err = "nil"
    /\ trace[2].event = "transport"
    /\ trace[2].fn = "resourceUpdate"
    /\ trace[2].url = "https://api.signalfx.com/v2/dashboard/Dx1"
    /\ trace[2].payload = getPayloadDashboard(d).bytes
    /\ Has(trace[2].payload, "charts")

====
